---- MODULE Spec2Model ----
(***************************************************************************)
(* Synchronization operations (devito/ir/support/syncs.py) and the OpenMP  *)
(* specializations (devito/passes/iet/specializations/openmp.py).          *)
(*                                                                         *)
(* Independent passes are modelled, each with its own specification:       *)
(*   SpecSync    normalize_syncs over a list of sync maps                  *)
(*   SpecGroup   normalize_syncs on three maps, at once and in two steps   *)
(*   SpecMask    the imask queries of the SyncOp classes                   *)
(*   SpecOmp     the pragma headers of OpenMPIteration / DeviceOmpIteration*)
(*   SpecRegion  the construction of an OpenMPRegion                       *)
(*   SpecProdder the threads of a region running a ThreadedProdder         *)
(*   SpecProdderFair  the same, every thread being scheduled               *)
(*   SpecInit    DeviceOmpizer.initialize and the code it generates        *)
(*   SpecOp      construction, equality and hash of SyncOps                *)
(***************************************************************************)
EXTENDS Integers, Sequences, FiniteSets, TLC

VARIABLES
    args,       \* normalize_syncs: the positional arguments (a list of maps)
    ret,        \* normalize_syncs: what the call produced
    spc,        \* normalize_syncs: "build" while the caller assembles args, then "done"
    inputs,     \* normalize_syncs: the caller's maps as the call left them
    nested,     \* normalize_syncs: what a call on the result of a call produced
    mdims,      \* imask: the dimensions of the object the mask ranges over
    locked,     \* imask: lock.locked_dimensions
    op,         \* imask: the SyncOp under query
    masks,      \* imask: the result of each mask query made so far
    kwargs,     \* Iteration: the keyword arguments of _make_header
    itercls,    \* Iteration: the class whose _make_header runs
    clauses,    \* Iteration: the list _make_clauses returned
    pragma,     \* Iteration: the text of the c.Pragma in the header
    retkw,      \* Iteration: the kwargs _make_header hands back
    rbody,      \* Region: as_tuple(body), the body argument of __init__
    rprivate,   \* Region: the private argument of __init__
    region,     \* Region: the object __init__ built, or the error it raised
    tpc,        \* Prodder: where each thread of the region is in the statement
    calls,      \* Prodder: the calls of the prodder function each thread made
    iet,        \* initialize: the Callable the pass is applied to
    initret,    \* initialize: what the pass returned
    rtenv,      \* initialize: the values the generated code meets at run time
    rtlog,      \* initialize: the runtime calls the generated code made
    opa,        \* SyncOp: the first constructed op
    opb,        \* SyncOp: the second constructed op
    cmp         \* SyncOp: the outcome of comparing and hashing the two

vars == <<args, ret, spc, inputs, nested, mdims, locked, op, masks, kwargs, itercls, clauses, pragma, retkw,
          rbody, rprivate, region, tpc, calls, iet, initret, rtenv, rtlog, opa, opb, cmp>>
syncvars == <<args, ret, spc, inputs, nested>>
maskvars == <<mdims, locked, op, masks>>
ompvars == <<kwargs, itercls, clauses, pragma, retkw>>
regionvars == <<rbody, rprivate, region>>
prodvars == <<tpc, calls>>
initvars == <<iet, initret, rtenv, rtlog>>
opvars == <<opa, opb, cmp>>

\* Each pass left untouched: nothing given to it, nothing produced.
RegionIdle == rbody = <<>> /\ rprivate = <<>> /\ region = <<>>
ProdderIdle == tpc = <<>> /\ calls = <<>>
InitIdle == iet = <<>> /\ initret = <<>> /\ rtenv = <<>> /\ rtlog = <<>>
OpIdle == opa = <<>> /\ opb = <<>> /\ cmp = <<>>

(***************************************************************************)
(* Bounds of the model.                                                    *)
(***************************************************************************)
MaxArgs == 2        \* maps passed to one normalize_syncs call
MaxOps == 4         \* ops over all the maps of one call

(***************************************************************************)
(* Generic helpers.                                                        *)
(***************************************************************************)
Range(s) == {s[i] : i \in DOMAIN s}

None == "None"

(***************************************************************************)
(* SyncOp values: the class and the ordered constructor arguments          *)
(* (sympy.Expr.__new__(cls, *args) keeps them as .args).                   *)
(***************************************************************************)
WaitLock(handle) == [cls |-> "WaitLock", args |-> <<handle>>]

WithLock(handle, dspace) == [cls |-> "WithLock", args |-> <<handle, dspace>>]

SyncData(cls, dim, size, function, fetch, ifetch, fcond, pfetch, pcond, target, tstore) ==
    [cls |-> cls,
     args |-> <<dim, size, function, fetch, ifetch, fcond, pfetch, pcond, target, tstore>>]

is_WaitLock(i) == i.cls = "WaitLock"

is_WithLock(i) == i.cls = "WithLock"

\* A variant that compares the arguments only.
SyncOp_eq_argsonly(a, b) == a.args = b.args

\* SyncOp.__eq__
SyncOp_eq(a, b) == a.cls = b.cls /\ a.args = b.args

(***************************************************************************)
(* normalize_syncs                                                         *)
(***************************************************************************)
\* devito.tools.filter_ordered: drop every element equal to an earlier one.
RECURSIVE filter_ordered(_)
filter_ordered(v) ==
    IF v = <<>> THEN <<>>
    ELSE LET front == filter_ordered(SubSeq(v, 1, Len(v) - 1))
             last == v[Len(v)]
         IN  IF \E i \in DOMAIN front : SyncOp_eq(front[i], last)
             THEN front
             ELSE Append(front, last)

\* A variant that assigns (syncs[k] = v) instead of extending.
ExtendAllAssign(syncs, dict) ==
    [k \in DOMAIN syncs \cup DOMAIN dict |->
        IF k \in DOMAIN dict THEN dict[k] ELSE syncs[k]]

\* One pass of `for k, v in _dict.items(): syncs[k].extend(v)` over a defaultdict(list).
ExtendAll(syncs, dict) ==
    [k \in DOMAIN syncs \cup DOMAIN dict |->
        (IF k \in DOMAIN syncs THEN syncs[k] ELSE <<>>)
            \o (IF k \in DOMAIN dict THEN dict[k] ELSE <<>>)]

\* `for _dict in args: ...` starting from the empty defaultdict.
RECURSIVE Collect(_)
Collect(as) ==
    IF as = <<>> THEN <<>>
    ELSE ExtendAll(Collect(SubSeq(as, 1, Len(as) - 1)), as[Len(as)])

\* The check of lines 201-207 on one value of the merged map.
Incompatible(v) ==
    LET waitlocks == {i \in DOMAIN v : is_WaitLock(v[i])}
        withlocks == {i \in DOMAIN v : is_WithLock(v[i])}
    IN  waitlocks # {} /\ withlocks # {}

Returned(m) == [kind |-> "map", map |-> m, exc |-> None, msg |-> <<>>]

ReturnedNone == [kind |-> "None", map |-> <<>>, exc |-> None, msg |-> <<>>]

\* raise ValueError("Incompatible SyncOps"): the message, word by word.
Raised == [kind |-> "raise", map |-> <<>>, exc |-> "ValueError",
           msg |-> <<"Incompatible", "SyncOps">>]

\* A variant that merges whatever the number of arguments.
normalize_syncs_noshortcut(as) ==
    LET syncs == Collect(as)
        filtered == [k \in DOMAIN syncs |-> filter_ordered(syncs[k])]
    IN  IF \E k \in DOMAIN filtered : Incompatible(filtered[k])
        THEN Raised
        ELSE Returned(filtered)

normalize_syncs(as) ==
    IF Len(as) = 0 THEN ReturnedNone
    ELSE IF Len(as) = 1 THEN Returned(as[1])
    ELSE LET syncs == Collect(as)
             filtered == [k \in DOMAIN syncs |-> filter_ordered(syncs[k])]
         IN  IF \E k \in DOMAIN filtered : Incompatible(filtered[k])
             THEN Raised
             ELSE Returned(filtered)

(***************************************************************************)
(* The same loop over the list objects: the heap holds the lists of the    *)
(* input maps (ins) and, per key of syncs, the list that key designates:   *)
(* one the defaultdict made (own = 0, its content in val) or the list      *)
(* input own holds under that key.                                         *)
(***************************************************************************)
\* A variant whose missing key takes over the list of the input at hand.
defaultdict_missing_adopt(i, k) == [own |-> i, val |-> <<>>]

\* defaultdict(list) on a missing key: a new empty list.
defaultdict_missing(i, k) == [own |-> 0, val |-> <<>>]

\* syncs[k].extend(v): the list syncs[k] designates grows by v, in place.
list_extend(h, k, v) ==
    IF h.syncs[k].own = 0
    THEN [h EXCEPT !.syncs[k].val = @ \o v]
    ELSE [h EXCEPT !.ins[h.syncs[k].own][k] = @ \o v]

\* `for k, v in _dict.items(): syncs[k].extend(v)` for input i, over the keys ks.
RECURSIVE ExtendItems(_, _, _)
ExtendItems(h, i, ks) ==
    IF ks = {} THEN h
    ELSE LET k == CHOOSE x \in ks : TRUE
             found == IF k \in DOMAIN h.syncs THEN h
                      ELSE [h EXCEPT !.syncs =
                               [j \in DOMAIN @ \cup {k} |->
                                   IF j = k THEN defaultdict_missing(i, k) ELSE @[j]]]
         IN  ExtendItems(list_extend(found, k, found.ins[i][k]), i, ks \ {k})

\* `for _dict in args: ...` over the first n inputs.
RECURSIVE CollectInPlace(_, _)
CollectInPlace(as, n) ==
    IF n = 0 THEN [ins |-> as, syncs |-> <<>>]
    ELSE LET h == CollectInPlace(as, n - 1)
         IN  ExtendItems(h, n, DOMAIN h.ins[n])

\* The input maps once the call is over, by return or by raise: lines
\* 189-192 and 199-209 write to none of them.
InputsAfter(as) == IF Len(as) < 2 THEN as ELSE CollectInPlace(as, Len(as)).ins

(***************************************************************************)
(* The caller of normalize_syncs: it assembles the maps, then calls.       *)
(***************************************************************************)
Keys == {"A", "B"}

SyncOps == {
    WaitLock("h1"),
    WithLock("h1", "ds1"),
    SyncData("FetchUpdate", "time", 1, "u", "time", "time_m", "fc", None, None, "ub", "sb1"),
    SyncData("PrefetchUpdate", "time", 1, "u", "time", "time_m", "fc", None, None, "ub", "sb1")
}

RECURSIVE NOps(_)
NOps(as) ==
    IF as = <<>> THEN 0
    ELSE LET m == as[Len(as)]
             RECURSIVE Sum(_)
             Sum(ks) == IF ks = {} THEN 0
                        ELSE LET k == CHOOSE x \in ks : TRUE
                             IN  Len(m[k]) + Sum(ks \ {k})
         IN  Sum(DOMAIN m) + NOps(SubSeq(as, 1, Len(as) - 1))

SyncIdle == args = <<>> /\ ret = ReturnedNone /\ spc = "build" /\ inputs = <<>>
            /\ nested = ReturnedNone

NewMap ==
    /\ spc = "build"
    /\ Len(args) < MaxArgs
    /\ args' = Append(args, <<>>)
    /\ UNCHANGED <<ret, spc, inputs, nested>>

AddKey ==
    /\ spc = "build"
    /\ Len(args) > 0
    /\ \E k \in Keys \ DOMAIN args[Len(args)] :
          args' = [args EXCEPT ![Len(args)] =
                      [j \in DOMAIN @ \cup {k} |-> IF j = k THEN <<>> ELSE @[j]]]
    /\ UNCHANGED <<ret, spc, inputs, nested>>

AddOp ==
    /\ spc = "build"
    /\ Len(args) > 0
    /\ NOps(args) < MaxOps
    /\ \E k \in DOMAIN args[Len(args)], o \in SyncOps :
          args' = [args EXCEPT ![Len(args)][k] = Append(@, o)]
    /\ UNCHANGED <<ret, spc, inputs, nested>>

CallNormalize ==
    /\ spc = "build"
    /\ ret' = normalize_syncs(args)
    /\ inputs' = InputsAfter(args)
    /\ spc' = "done"
    /\ UNCHANGED <<args, nested>>

MaskIdle == mdims = <<>> /\ locked = {} /\ op = WaitLock("h1") /\ masks = <<>>

OmpIdle == kwargs = <<>> /\ itercls = None /\ clauses = <<>> /\ pragma = "" /\ retkw = <<>>

InitSync == SyncIdle /\ MaskIdle /\ OmpIdle /\ RegionIdle /\ ProdderIdle /\ InitIdle /\ OpIdle

NextSync ==
    \/ NewMap /\ UNCHANGED <<maskvars, ompvars, regionvars, prodvars, initvars, opvars>>
    \/ AddKey /\ UNCHANGED <<maskvars, ompvars, regionvars, prodvars, initvars, opvars>>
    \/ AddOp /\ UNCHANGED <<maskvars, ompvars, regionvars, prodvars, initvars, opvars>>
    \/ CallNormalize /\ UNCHANGED <<maskvars, ompvars, regionvars, prodvars, initvars, opvars>>

SpecSync == InitSync /\ [][NextSync]_vars

(***************************************************************************)
(* The masks of the SyncOps.                                               *)
(***************************************************************************)
MaxAxes == 2        \* axes of the object a mask ranges over
MaxSize == 2        \* the size argument of a SyncData

Dimensions == {"time", "x", "y", "t", "xi"}

\* Dimension.root: t steps over time, xi is a sub-dimension of x.
Root(d) == CASE d = "t" -> "time" [] d = "xi" -> "x" [] OTHER -> d

\* devito.data.FULL
FULL == <<"FULL">>

\* handle.indices[d]: the index the handle carries along d.
indices(handle) == [d \in Dimensions |-> handle \o "[" \o d \o "]"]

\* The attributes SyncData.__new__ sets from its arguments.
dim(o) == o.args[1]
size(o) == o.args[2]
fetch(o) == o.args[4]
ifetch(o) == o.args[5]
pfetch(o) == o.args[7]
tstore(o) == o.args[10]

\* SyncOp.handle
handle(o) == o.args[1]

\* SyncLock.size
SyncLock_size == 1

\* A variant that tests the axis itself instead of its root.
WithLock_imask_noroot(o, dims, locked_dimensions) ==
    [i \in DOMAIN dims |->
        IF dims[i] \in locked_dimensions
        THEN <<indices(handle(o))[dims[i]], SyncLock_size>>
        ELSE FULL]

\* WithLock.imask over self.target.dimensions
WithLock_imask(o, dims, locked_dimensions) ==
    [i \in DOMAIN dims |->
        IF Root(dims[i]) \in locked_dimensions
        THEN <<indices(handle(o))[dims[i]], SyncLock_size>>
        ELSE FULL]

\* FetchUpdate.imask over self.function.dimensions
FetchUpdate_imask(o, dims) ==
    [i \in DOMAIN dims |->
        IF Root(dims[i]) = Root(dim(o)) THEN <<tstore(o), size(o)>> ELSE FULL]

\* PrefetchUpdate.imask
PrefetchUpdate_imask(o, dims) ==
    [i \in DOMAIN dims |->
        IF Root(dims[i]) = Root(dim(o)) THEN <<tstore(o), size(o)>> ELSE FULL]

\* FetchPrefetch.iimask
FetchPrefetch_iimask(o, dims) ==
    [i \in DOMAIN dims |->
        IF Root(dims[i]) = Root(dim(o)) THEN <<ifetch(o), size(o)>> ELSE FULL]

\* A variant that reads ifetch where pimask reads fetch.
FetchPrefetch_pimask_ifetch(o, dims) ==
    [i \in DOMAIN dims |->
        IF Root(dims[i]) = Root(dim(o)) THEN <<ifetch(o), size(o)>> ELSE FULL]

\* FetchPrefetch.pimask
FetchPrefetch_pimask(o, dims) ==
    [i \in DOMAIN dims |->
        IF Root(dims[i]) = Root(dim(o)) THEN <<fetch(o), size(o)>> ELSE FULL]

\* FetchPrefetch.imask
FetchPrefetch_imask(o, dims) ==
    [i \in DOMAIN dims |->
        IF Root(dims[i]) = Root(dim(o)) THEN <<pfetch(o), size(o)>> ELSE FULL]

\* A variant that reads tstore where Delete reads fetch.
Delete_imask_tstore(o, dims) ==
    [i \in DOMAIN dims |->
        IF Root(dims[i]) = Root(dim(o)) THEN <<tstore(o), size(o)>> ELSE FULL]

\* Delete.imask
Delete_imask(o, dims) ==
    [i \in DOMAIN dims |->
        IF Root(dims[i]) = Root(dim(o)) THEN <<fetch(o), size(o)>> ELSE FULL]

Mask(m) == [exc |-> None, val |-> m]

\* SyncOp.imask, inherited by WaitLock and WaitPrefetch.
NotImplemented == [exc |-> "NotImplementedError", val |-> <<>>]

\* o.imask, by the class of o.
imask(o, dims, locked_dimensions) ==
    CASE o.cls = "WithLock" -> Mask(WithLock_imask(o, dims, locked_dimensions))
      [] o.cls = "FetchUpdate" -> Mask(FetchUpdate_imask(o, dims))
      [] o.cls = "PrefetchUpdate" -> Mask(PrefetchUpdate_imask(o, dims))
      [] o.cls = "FetchPrefetch" -> Mask(FetchPrefetch_imask(o, dims))
      [] o.cls = "Delete" -> Mask(Delete_imask(o, dims))
      [] OTHER -> NotImplemented

SyncDataClasses == {"FetchUpdate", "PrefetchUpdate", "FetchPrefetch", "WaitPrefetch", "Delete"}

Handles == {"h1", "h2"}

\* The SyncOps a mask is asked of.
MaskOps ==
    {WaitLock(h) : h \in Handles}
    \cup {WithLock(h, "ds1") : h \in Handles}
    \cup {SyncData(c, d, n, "u", "time", "time_m", "fc", "time+1", "pc", "ub", "sb1") :
            c \in SyncDataClasses, d \in Dimensions, n \in 1..MaxSize}

\* Tuples of distinct dimensions.
DimTuples ==
    {s \in UNION {[1..n -> Dimensions] : n \in 1..MaxAxes} :
        \A i, j \in DOMAIN s : i # j => s[i] # s[j]}

InitMask ==
    /\ SyncIdle
    /\ OmpIdle
    /\ RegionIdle /\ ProdderIdle /\ InitIdle /\ OpIdle
    /\ op \in MaskOps
    /\ mdims \in DimTuples
    /\ locked \in (IF op.cls \in {"WaitLock", "WithLock"} THEN SUBSET Dimensions ELSE {{}})
    /\ masks = <<>>

Record(q, r) == [n \in DOMAIN masks \cup {q} |-> IF n = q THEN r ELSE masks[n]]

QueryImask ==
    /\ masks' = Record("imask", imask(op, mdims, locked))
    /\ UNCHANGED <<mdims, locked, op>>

QueryIimask ==
    /\ op.cls = "FetchPrefetch"
    /\ masks' = Record("iimask", Mask(FetchPrefetch_iimask(op, mdims)))
    /\ UNCHANGED <<mdims, locked, op>>

QueryPimask ==
    /\ op.cls = "FetchPrefetch"
    /\ masks' = Record("pimask", Mask(FetchPrefetch_pimask(op, mdims)))
    /\ UNCHANGED <<mdims, locked, op>>

NextMask ==
    \/ QueryImask /\ UNCHANGED <<syncvars, ompvars, regionvars, prodvars, initvars, opvars>>
    \/ QueryIimask /\ UNCHANGED <<syncvars, ompvars, regionvars, prodvars, initvars, opvars>>
    \/ QueryPimask /\ UNCHANGED <<syncvars, ompvars, regionvars, prodvars, initvars, opvars>>

SpecMask == InitMask /\ [][NextMask]_vars

(***************************************************************************)
(* The pragma headers of OpenMPIteration and DeviceOmpIteration.           *)
(***************************************************************************)
MaxCollapse == 2    \* the ncollapse argument
MaxChunk == 2       \* the chunk_size argument
MaxTargets == 2     \* reduction targets of one Iteration

\* Python values: None, bool (an int), int, str, list.
PyNone == [tag |-> "None", int |-> 0, str |-> "", seq |-> <<>>]
PyBool(b) == [tag |-> "bool", int |-> IF b THEN 1 ELSE 0, str |-> "", seq |-> <<>>]
PyInt(n) == [tag |-> "int", int |-> n, str |-> "", seq |-> <<>>]
PyStr(t) == [tag |-> "str", int |-> 0, str |-> t, seq |-> <<>>]
PyList(l) == [tag |-> "list", int |-> 0, str |-> "", seq |-> l]
PyFalse == PyBool(FALSE)

\* bool(v)
Truthy(v) ==
    CASE v.tag = "None" -> FALSE
      [] v.tag \in {"bool", "int"} -> v.int # 0
      [] v.tag = "str" -> v.str # ""
      [] v.tag = "list" -> v.seq # <<>>

\* '%s' % v and '%d' % v
Format(v) ==
    CASE v.tag = "int" -> ToString(v.int)
      [] v.tag = "str" -> v.str
      [] v.tag = "bool" -> IF v.int = 1 THEN "True" ELSE "False"
      [] OTHER -> "None"

\* sep.join(parts)
RECURSIVE Join(_, _)
Join(parts, sep) ==
    IF parts = <<>> THEN ""
    ELSE IF Len(parts) = 1 THEN parts[1]
    ELSE Join(SubSeq(parts, 1, Len(parts) - 1), sep) \o sep \o parts[Len(parts)]

\* kwargs.get(k, default) / a keyword parameter with a default
Get(kw, k, default) == IF k \in DOMAIN kw THEN kw[k] ELSE default

\* kwargs.pop(k, None)
Pop(kw, k) == [j \in DOMAIN kw \ {k} |-> kw[j]]

\* An index of an Indexed: a number or a symbol.
Number(k) == [is_Number |-> TRUE, num |-> k, sym |-> ""]
SymbolIdx(n) == [is_Number |-> FALSE, num |-> 0, sym |-> n]

\* A reduction target: a scalar symbol, or an Indexed with its indices and, per
\* dimension d of its function, the text of f._C_get_field(FULL, d).size.
Scalar(n) == [is_Indexed |-> FALSE, name |-> n, indices |-> <<>>, sizes |-> <<>>]
Indexed(n, idx, sz) == [is_Indexed |-> TRUE, name |-> n, indices |-> idx, sizes |-> sz]

\* A variant that emits a range for every index.
BoundAlwaysRange(k, fsize) == "[0:" \o fsize \o "]"

\* One element of `bounds` (lines 117-122).
Bound(k, fsize) ==
    IF k.is_Number THEN "[" \o ToString(k.num) \o "]"
    ELSE "[0:" \o fsize \o "]"

\* zip(i.indices, f.dimensions)
ZipLen(i) == IF Len(i.indices) < Len(i.sizes) THEN Len(i.indices) ELSE Len(i.sizes)

\* One element of `args` (lines 113-125).
ReductionArg(i) ==
    IF i.is_Indexed
    THEN i.name \o Join([n \in 1..ZipLen(i) |-> Bound(i.indices[n], i.sizes[n])], "")
    ELSE i.name

\* A variant that puts the thread count before the schedule.
OpenMPIteration_make_clauses_reordered(kw) ==
    LET ncollapse == Get(kw, "ncollapse", PyNone)
        chunk_size == Get(kw, "chunk_size", PyNone)
        nthreads == Get(kw, "nthreads", PyNone)
        reduction == Get(kw, "reduction", PyNone)
        schedule == Get(kw, "schedule", PyNone)
    IN  <<"collapse(" \o Format(IF Truthy(ncollapse) THEN ncollapse ELSE PyInt(1)) \o ")">>
        \o (IF Truthy(nthreads)
            THEN <<"num_threads(" \o Format(nthreads) \o ")">>
            ELSE <<>>)
        \o (IF chunk_size # PyFalse
            THEN <<"schedule("
                   \o Format(IF Truthy(schedule) THEN schedule ELSE PyStr("dynamic"))
                   \o "," \o Format(IF Truthy(chunk_size) THEN chunk_size ELSE PyInt(1))
                   \o ")">>
            ELSE <<>>)
        \o (IF Truthy(reduction)
            THEN <<"reduction(+:"
                   \o Join([n \in DOMAIN reduction.seq |-> ReductionArg(reduction.seq[n])], ",")
                   \o ")">>
            ELSE <<>>)

\* OpenMPIteration._make_clauses
OpenMPIteration_make_clauses(kw) ==
    LET ncollapse == Get(kw, "ncollapse", PyNone)
        chunk_size == Get(kw, "chunk_size", PyNone)
        nthreads == Get(kw, "nthreads", PyNone)
        reduction == Get(kw, "reduction", PyNone)
        schedule == Get(kw, "schedule", PyNone)
    IN  <<"collapse(" \o Format(IF Truthy(ncollapse) THEN ncollapse ELSE PyInt(1)) \o ")">>
        \o (IF chunk_size # PyFalse
            THEN <<"schedule("
                   \o Format(IF Truthy(schedule) THEN schedule ELSE PyStr("dynamic"))
                   \o "," \o Format(IF Truthy(chunk_size) THEN chunk_size ELSE PyInt(1))
                   \o ")">>
            ELSE <<>>)
        \o (IF Truthy(nthreads)
            THEN <<"num_threads(" \o Format(nthreads) \o ")">>
            ELSE <<>>)
        \o (IF Truthy(reduction)
            THEN <<"reduction(+:"
                   \o Join([n \in DOMAIN reduction.seq |-> ReductionArg(reduction.seq[n])], ",")
                   \o ")">>
            ELSE <<>>)

\* OpenMPIteration._make_construct
OpenMPIteration_make_construct(kw) ==
    IF Truthy(Get(kw, "parallel", PyFalse)) THEN "omp parallel for" ELSE "omp for"

\* DeviceOmpIteration._make_construct
DeviceOmpIteration_make_construct(kw) == "omp target teams distribute parallel for"

\* A variant that leaves chunk_size as given.
DeviceOmpIteration_make_clauses_keepchunk(kw) == OpenMPIteration_make_clauses(kw)

\* DeviceOmpIteration._make_clauses: kwargs['chunk_size'] = False, then the base's.
DeviceOmpIteration_make_clauses(kw) ==
    OpenMPIteration_make_clauses(
        [k \in DOMAIN kw \cup {"chunk_size"} |-> IF k = "chunk_size" THEN PyFalse ELSE kw[k]])

\* cls._make_construct / cls._make_clauses, as OpenMPIteration._make_header calls them.
make_construct(cls, kw) ==
    IF cls = "DeviceOmpIteration" THEN DeviceOmpIteration_make_construct(kw)
    ELSE OpenMPIteration_make_construct(kw)

make_clauses(cls, kw) ==
    IF cls = "DeviceOmpIteration" THEN DeviceOmpIteration_make_clauses(kw)
    ELSE OpenMPIteration_make_clauses(kw)

\* The inputs of _make_header.
Absent == [tag |-> "absent", int |-> 0, str |-> "", seq |-> <<>>]

Targets == {
    Scalar("s"),
    Indexed("f", <<Number(0), SymbolIdx("j")>>, <<"1", "50">>),
    Indexed("g", <<SymbolIdx("i"), Number(2)>>, <<"g_vec->size[0]", "4">>)
}

ReductionLists == UNION {[1..n -> Targets] : n \in 0..MaxTargets}

KwNames == {"parallel", "ncollapse", "schedule", "chunk_size", "nthreads", "reduction",
            "pragmas", "gpu_fit"}

KwValues(k) ==
    CASE k = "parallel" -> {Absent, PyBool(TRUE), PyBool(FALSE)}
      [] k = "ncollapse" -> {Absent} \cup {PyInt(n) : n \in 1..MaxCollapse}
      [] k = "schedule" -> {Absent, PyStr("static")}
      [] k = "chunk_size" -> {Absent, PyFalse} \cup {PyInt(n) : n \in 1..MaxChunk}
      [] k = "nthreads" -> {Absent, PyStr("nthreads")}
      [] k = "reduction" -> {Absent} \cup {PyList(l) : l \in ReductionLists}
      [] k = "pragmas" -> {Absent, PyStr("omp simd")}
      [] k = "gpu_fit" -> {Absent, PyList(<<>>)}

\* The dict holding the given values, without the absent ones.
MkKwargs(f) == [k \in {j \in DOMAIN f : f[j] # Absent} |-> f[k]]

KwargsSet ==
    {MkKwargs([parallel |-> p, ncollapse |-> n, schedule |-> s, chunk_size |-> c,
               nthreads |-> t, reduction |-> r, pragmas |-> q, gpu_fit |-> g]) :
        p \in KwValues("parallel"), n \in KwValues("ncollapse"),
        s \in KwValues("schedule"), c \in KwValues("chunk_size"),
        t \in KwValues("nthreads"), r \in KwValues("reduction"),
        q \in KwValues("pragmas"), g \in KwValues("gpu_fit")}

InitOmp ==
    /\ SyncIdle
    /\ MaskIdle
    /\ RegionIdle /\ ProdderIdle /\ InitIdle /\ OpIdle
    /\ kwargs \in KwargsSet
    /\ itercls = None
    /\ clauses = <<>>
    /\ pragma = ""
    /\ retkw = <<>>

\* OpenMPIteration._make_header
OpenMPIteration_make_header ==
    /\ itercls = None
    /\ itercls' = "OpenMPIteration"
    /\ LET kw == Pop(kwargs, "pragmas")
           construct == make_construct("OpenMPIteration", kw)
           cl == make_clauses("OpenMPIteration", kw)
       IN  /\ clauses' = cl
           /\ pragma' = Join(<<construct>> \o cl, " ")
           /\ retkw' = kw
    /\ UNCHANGED kwargs

\* DeviceOmpIteration._make_header
DeviceOmpIteration_make_header ==
    /\ itercls = None
    /\ itercls' = "DeviceOmpIteration"
    /\ LET kw == Pop(kwargs, "pragmas")
           construct == make_construct("DeviceOmpIteration", kw)
           cl == make_clauses("DeviceOmpIteration", kw)
       IN  /\ clauses' = cl
           /\ pragma' = Join(<<construct>> \o cl, " ")
           /\ retkw' = Pop(kw, "gpu_fit")
    /\ UNCHANGED kwargs

NextOmp ==
    \/ OpenMPIteration_make_header /\ UNCHANGED <<syncvars, maskvars, regionvars, prodvars, initvars, opvars>>
    \/ DeviceOmpIteration_make_header /\ UNCHANGED <<syncvars, maskvars, regionvars, prodvars, initvars, opvars>>

SpecOmp == InitOmp /\ [][NextOmp]_vars

(***************************************************************************)
(* OpenMPRegion.                                                           *)
(***************************************************************************)
MaxBody == 2        \* elements of the body argument
MaxStmts == 2       \* statements of a header or of a prefix
MaxPrivate == 2     \* names in the private argument

\* An IET node: header and footer hold cgen objects (by name), body and
\* prefix hold nodes.
Node(type, name, header, body, footer, prefix, nthreads) ==
    [type |-> type, name |-> name, header |-> header, body |-> body,
     footer |-> footer, prefix |-> prefix, nthreads |-> nthreads]

Expression(name) == Node("Expression", name, <<>>, <<>>, <<>>, <<>>, "")

List(header, body, footer) == Node("List", "", header, body, footer, <<>>, "")

\* A ParallelTree around its root loop; nthreads is the name of the symbol.
ParallelTree(prefix, nthreads) ==
    Node("ParallelTree", "", <<>>, <<Node("Iteration", "root", <<>>, <<>>, <<>>, <<>>, "")>>,
         <<>>, prefix, nthreads)

\* body.is_List: ParallelTree is a List.
is_List(n) == n.type \in {"List", "ParallelTree"}

\* partree._rebuild(prefix=p): the same tree with as_tuple(p) for prefix.
rebuild_prefix(partree, p) == [partree EXCEPT !.prefix = <<p>>]

\* A variant that keeps the wrapper's header only.
WrapPrefixHeaderOnly(body, partree) == List(body.header, <<>>, <<>>)

\* List(header=body.header, body=partree.prefix)
WrapPrefix(body, partree) == List(body.header, partree.prefix, <<>>)

\* A variant that omits the private clause.
OpenMPRegion_make_header_noprivate(nthreads, private) ==
    "omp parallel num_threads(" \o nthreads \o ") "

\* OpenMPRegion._make_header; nthreads stands for nthreads.name.
OpenMPRegion_make_header(nthreads, private) ==
    LET clause == IF Truthy(private)
                  THEN "private(" \o Join(private.seq, ",") \o ")"
                  ELSE ""
    IN  "omp parallel num_threads(" \o nthreads \o ") " \o clause

NoRegion == [kind |-> "none", exc |-> None, pragma |-> "", body |-> <<>>]

\* A failed assert of __init__.
AssertionError == [kind |-> "raise", exc |-> "AssertionError", pragma |-> "", body |-> <<>>]

\* Lines 40-41: the header, then ParallelBlock.__init__(header=header, body=partree).
Built(partree, private) ==
    [kind |-> "Region", exc |-> None,
     pragma |-> OpenMPRegion_make_header(partree.nthreads, private),
     body |-> <<partree>>]

\* A variant without the assert on the footer.
OpenMPRegion_init_nofooter(body, private) ==
    IF Len(body) # 1 THEN AssertionError
    ELSE LET b == body[1]
         IN  IF ~ is_List(b) THEN AssertionError
             ELSE IF b.type = "ParallelTree" THEN Built(b, private)
             ELSE IF ~ (Len(b.body) = 1 /\ b.body[1].type = "ParallelTree")
                  THEN AssertionError
             ELSE Built(rebuild_prefix(b.body[1], WrapPrefix(b, b.body[1])), private)

\* OpenMPRegion.__init__, body being as_tuple(body).
OpenMPRegion_init(body, private) ==
    IF Len(body) # 1 THEN AssertionError
    ELSE LET b == body[1]
         IN  IF ~ is_List(b) THEN AssertionError
             ELSE IF b.type = "ParallelTree" THEN Built(b, private)
             ELSE IF ~ (Len(b.body) = 1 /\ b.body[1].type = "ParallelTree")
                  THEN AssertionError
             ELSE IF Len(b.footer) # 0 THEN AssertionError
             ELSE Built(rebuild_prefix(b.body[1], WrapPrefix(b, b.body[1])), private)

\* The arguments a Region is built from.
Comments(n) == [i \in 1..n |-> "c" \o ToString(i)]

Prefix(n) == [i \in 1..n |-> Expression("p" \o ToString(i))]

Trees == {ParallelTree(Prefix(n), t) : n \in 0..MaxStmts, t \in {"nthreads", "nthreads_nested"}}

PlainTree == ParallelTree(<<>>, "nthreads")

WrapperBodies ==
    {<<>>, <<PlainTree, PlainTree>>, <<Expression("e")>>, <<PlainTree, Expression("e")>>}
    \cup {<<t>> : t \in Trees}

Wrappers ==
    {List(Comments(n), b, f) : n \in 0..MaxStmts, b \in WrapperBodies, f \in {<<>>, <<"f1">>}}

BodyArgs ==
    {<<>>}
    \cup {<<n>> : n \in Trees \cup Wrappers \cup {Expression("e")}}
    \cup UNION {[1..k -> {PlainTree, Expression("e"), List(<<>>, <<PlainTree>>, <<>>)}] :
                   k \in 2..MaxBody}

PrivateArgs ==
    {PyNone} \cup {PyList([i \in 1..n |-> "v" \o ToString(i)]) : n \in 0..MaxPrivate}

InitRegion ==
    /\ SyncIdle /\ MaskIdle /\ OmpIdle /\ ProdderIdle /\ InitIdle /\ OpIdle
    /\ rbody \in BodyArgs
    /\ rprivate \in PrivateArgs
    /\ region = NoRegion

Construct ==
    /\ region.kind = "none"
    /\ region' = OpenMPRegion_init(rbody, rprivate)
    /\ UNCHANGED <<rbody, rprivate>>

NextRegion ==
    Construct /\ UNCHANGED <<syncvars, maskvars, ompvars, prodvars, initvars, opvars>>

SpecRegion == InitRegion /\ [][NextRegion]_vars

(***************************************************************************)
(* ThreadedProdder: the statement it builds, run by the threads of a       *)
(* parallel region.                                                        *)
(***************************************************************************)
NThreads == 4       \* threads of the region
MaxPolls == 3       \* calls of the prodder counted per thread

Threads == 0 .. (NThreads - 1)

CondEq(lhs, rhs) == [op |-> "==", lhs |-> lhs, rhs |-> rhs]

CondNe(lhs, rhs) == [op |-> "!=", lhs |-> lhs, rhs |-> rhs]

\* Ompizer.lang['thread-num']
thread_num == "omp_get_thread_num"

\* While(Not(DefFunction(prodder.name, ...))), its body empty.
While_Not(name) == [type |-> "While", condition |-> [op |-> "!", call |-> name]]

\* A variant whose condition holds for every thread but thread 0.
ThreadedProdder_init_ne(prodder) ==
    [condition |-> CondNe(thread_num, 0), then_body |-> While_Not(prodder)]

\* ThreadedProdder.__init__: Conditional(condition, then_body).
ThreadedProdder_init(prodder) ==
    [condition |-> CondEq(thread_num, 0), then_body |-> While_Not(prodder)]

\* The statement the threads run.
Statement == ThreadedProdder_init("prod")

\* The condition as thread t evaluates it: omp_get_thread_num() is t.
Holds(cond, t) == IF cond.op = "==" THEN t = cond.rhs ELSE t # cond.rhs

InitProdder ==
    /\ SyncIdle /\ MaskIdle /\ OmpIdle /\ RegionIdle /\ InitIdle /\ OpIdle
    /\ tpc = [t \in Threads |-> "if"]
    /\ calls = [t \in Threads |-> [n |-> 0, ret |-> FALSE]]

\* Thread t evaluates the condition of the Conditional.
EvalIf(t) ==
    /\ tpc[t] = "if"
    /\ tpc' = [tpc EXCEPT ![t] = IF Holds(Statement.condition, t) THEN "while" ELSE "done"]
    /\ UNCHANGED calls

\* Thread t calls the prodder in the condition of the While.
CallProd(t) ==
    /\ tpc[t] = "while"
    /\ \E r \in BOOLEAN :
          calls' = [calls EXCEPT ![t] =
                       [n |-> IF calls[t].n < MaxPolls THEN calls[t].n + 1 ELSE MaxPolls,
                        ret |-> r]]
    /\ tpc' = [tpc EXCEPT ![t] = "test"]

\* A variant that loops while the result is true.
TestWhile_plain(t) ==
    /\ tpc[t] = "test"
    /\ tpc' = [tpc EXCEPT ![t] = IF calls[t].ret THEN "while" ELSE "done"]
    /\ UNCHANGED calls

\* Thread t tests Not(result): loop again, or leave.
TestWhile(t) ==
    /\ tpc[t] = "test"
    /\ tpc' = [tpc EXCEPT ![t] = IF ~ calls[t].ret THEN "while" ELSE "done"]
    /\ UNCHANGED calls

NextProdder ==
    /\ \E t \in Threads : EvalIf(t) \/ CallProd(t) \/ TestWhile(t)
    /\ UNCHANGED <<syncvars, maskvars, ompvars, regionvars, initvars, opvars>>

SpecProdder == InitProdder /\ [][NextProdder]_vars

\* One step of thread t.
ThreadStep(t) ==
    /\ EvalIf(t) \/ CallProd(t) \/ TestWhile(t)
    /\ UNCHANGED <<syncvars, maskvars, ompvars, regionvars, initvars, opvars>>

\* Every thread of the region is an OpenMP thread of its own and keeps being
\* scheduled: a thread that can take a step eventually takes one.
SpecProdderFair == SpecProdder /\ \A t \in Threads : WF_vars(ThreadStep(t))

(***************************************************************************)
(* DeviceOmpizer.initialize, and the block it generates at run time.       *)
(***************************************************************************)
MaxParams == 2      \* parameters of the iet
MaxDevice == 2      \* largest device id passed at run time
MaxRank == 2        \* largest MPI rank
MaxGpus == 2        \* largest number of devices

\* Expressions of the generated code.
Expr(o, a, b, n) == [op |-> o, a |-> a, b |-> b, n |-> n]

Sym(name) == Expr("sym", name, "", 0)

Num(n) == Expr("num", "", "", n)

Byref(name) == Expr("&", name, "", 0)

Mod(a, b) == Expr("%", a, b, 0)

FunctionCall(name) == Expr("call", name, "", 0)

NoExpr == Expr("none", "", "", 0)

NoCond == [op |-> "none", lhs |-> "", rhs |-> 0]

\* Statements of the generated code and of the iet body.
Stmt(type, name, arguments, lhs, rhs, cond, then_body, else_body, header, body, footer) ==
    [type |-> type, name |-> name, args |-> arguments, lhs |-> lhs, rhs |-> rhs,
     cond |-> cond, then_body |-> then_body, else_body |-> else_body,
     header |-> header, body |-> body, footer |-> footer]

Call(name, arguments) ==
    Stmt("Call", name, arguments, "", NoExpr, NoCond, <<>>, <<>>, <<>>, <<>>, <<>>)

\* LocalExpression(DummyEq(lhs, rhs))
LocalExpression(lhs, rhs) ==
    Stmt("LocalExpression", "", <<>>, lhs, rhs, NoCond, <<>>, <<>>, <<>>, <<>>, <<>>)

\* Conditional(condition, then_body, else_body); no else_body is <<>>.
Conditional(cond, then_body, else_body) ==
    Stmt("Conditional", "", <<>>, "", NoExpr, cond, then_body, else_body, <<>>, <<>>, <<>>)

StmtList(header, body, footer) ==
    Stmt("List", "", <<>>, "", NoExpr, NoCond, <<>>, <<>>, header, body, footer)

\* A statement of the original body.
Original(name) ==
    Stmt("Expression", name, <<>>, "", NoExpr, NoCond, <<>>, <<>>, <<>>, <<>>, <<>>)

Param(name, cls) == [name |-> name, cls |-> cls]

\* DeviceID()
DeviceID == Param("deviceid", "DeviceID")

NoParam == Param("", "None")

\* Lines 226-230: the first MPICommObject of the parameters, or None.
RECURSIVE objcomm(_)
objcomm(parameters) ==
    IF parameters = <<>> THEN NoParam
    ELSE IF Head(parameters).cls = "MPICommObject" THEN Head(parameters)
    ELSE objcomm(Tail(parameters))

\* A variant that exchanges the two branches.
InitBody_swapped(comm, deviceid) ==
    IF comm # NoParam
    THEN <<Conditional(CondNe(deviceid.name, -1),
             <<StmtList(<<>>,
                 <<LocalExpression("rank", Num(0)),
                   Call("MPI_Comm_rank", <<Sym(comm.name), Byref("rank")>>),
                   LocalExpression("ngpus", FunctionCall("omp_get_num_devices")),
                   Call("omp_set_default_device", <<Mod("rank", "ngpus")>>)>>,
                 <<>>)>>,
             <<Call("omp_set_default_device", <<Sym(deviceid.name)>>)>>)>>
    ELSE <<Conditional(CondNe(deviceid.name, -1),
             <<>>,
             <<Call("omp_set_default_device", <<Sym(deviceid.name)>>)>>)>>

\* Lines 233-254: the body of the setup block.
InitBody(comm, deviceid) ==
    IF comm # NoParam
    THEN <<Conditional(CondNe(deviceid.name, -1),
             <<Call("omp_set_default_device", <<Sym(deviceid.name)>>)>>,
             <<StmtList(<<>>,
                 <<LocalExpression("rank", Num(0)),
                   Call("MPI_Comm_rank", <<Sym(comm.name), Byref("rank")>>),
                   LocalExpression("ngpus", FunctionCall("omp_get_num_devices")),
                   Call("omp_set_default_device", <<Mod("rank", "ngpus")>>)>>,
                 <<>>)>>)>>
    ELSE <<Conditional(CondNe(deviceid.name, -1),
             <<Call("omp_set_default_device", <<Sym(deviceid.name)>>)>>,
             <<>>)>>

\* Lines 256-258: the setup block.
InitBlock(body) ==
    StmtList(<<"Begin of OpenMP+MPI setup">>, body, <<"End of OpenMP+MPI setup", "">>)

\* A variant that puts the block after the body.
Prepend_after(init, body) == body \o <<init>>

\* (init,) + iet.body
Prepend(init, body) == <<init>> \o body

\* iet._rebuild(body=b): the same function with b for body.
rebuild_body(f, b) == [f EXCEPT !.body = b]

NoIet == [type |-> "None", parameters |-> <<>>, body |-> <<>>]

NoRet == [kind |-> "none", iet |-> NoIet, meta |-> {}]

InitReturn(f, meta) == [kind |-> "return", iet |-> f, meta |-> meta]

InitRaise == [kind |-> "raise", iet |-> NoIet, meta |-> {}]

\* Lines 215-217: any iet that is not an EntryFunction.
initialize_default(f) == InitReturn(f, {})

\* A variant that wants a DeviceID among the parameters.
initialize_entry_require(f) ==
    IF \A i \in 1..Len(f.parameters) : f.parameters[i].cls # "DeviceID"
    THEN InitRaise
    ELSE InitReturn(rebuild_body(f, Prepend(InitBlock(InitBody(objcomm(f.parameters), DeviceID)),
                                            f.body)),
                    {[key |-> "args", value |-> DeviceID]})

\* Lines 219-261: an EntryFunction.
initialize_entry(f) ==
    InitReturn(rebuild_body(f, Prepend(InitBlock(InitBody(objcomm(f.parameters), DeviceID)),
                                       f.body)),
               {[key |-> "args", value |-> DeviceID]})

\* The single dispatch of line 263.
initialize(f) ==
    IF f.type = "EntryFunction" THEN initialize_entry(f) ELSE initialize_default(f)

\* The run-time environment of the generated code: the deviceid argument,
\* what MPI_Comm_rank and omp_get_num_devices answer, and what a division by
\* zero does (-1: the process traps; otherwise the value it yields).
Env(deviceid, mpirank, ndevices, ub) ==
    [ran |-> TRUE, deviceid |-> deviceid, mpirank |-> mpirank,
     ndevices |-> ndevices, ub |-> ub]

NoEnv == [ran |-> FALSE, deviceid |-> 0, mpirank |-> 0, ndevices |-> 0, ub |-> 0]

Envs ==
    {Env(d, r, n, u) : d \in -1..MaxDevice, r \in 0..MaxRank, n \in 0..MaxGpus,
                       u \in -1..MaxDevice}

\* One entry of the trace of run-time calls.
Logged(name, obj, arg) == [name |-> name, obj |-> obj, arg |-> arg]

\* The locals rank and ngpus, the calls made so far, whether the process trapped.
Start == [rank |-> 0, ngpus |-> 0, log |-> <<>>, trapped |-> FALSE]

\* One statement that is neither a List nor a Conditional.
ExecSimple(st, env, state) ==
    CASE st.type = "LocalExpression" /\ st.rhs.op = "num" ->
            [state EXCEPT ![st.lhs] = st.rhs.n]
      [] st.type = "LocalExpression" /\ st.rhs.op = "call" ->
            [state EXCEPT ![st.lhs] = env.ndevices,
                          !.log = Append(@, Logged(st.rhs.a, "", 0))]
      [] st.type = "Call" /\ st.name = "MPI_Comm_rank" ->
            [state EXCEPT ![st.args[2].a] = env.mpirank,
                          !.log = Append(@, Logged(st.name, st.args[1].a, 0))]
      [] st.type = "Call" /\ st.args[1].op = "sym" ->
            [state EXCEPT !.log = Append(@, Logged(st.name, "", env.deviceid))]
      [] st.type = "Call" /\ st.args[1].op = "%" ->
            IF state[st.args[1].b] # 0
            THEN [state EXCEPT !.log = Append(@, Logged(st.name, "",
                                   state[st.args[1].a] % state[st.args[1].b]))]
            ELSE IF env.ub = -1
                 THEN [state EXCEPT !.trapped = TRUE, !.log = Append(@, Logged("SIGFPE", "", 0))]
                 ELSE [state EXCEPT !.log = Append(@, Logged(st.name, "", env.ub))]
      [] OTHER ->
            [state EXCEPT !.log = Append(@, Logged(st.name, "", 0))]

\* The statements in order, until the end or a trap.
RECURSIVE Exec(_, _, _)
Exec(stmts, env, state) ==
    IF stmts = <<>> \/ state.trapped THEN state
    ELSE LET st == Head(stmts)
             after ==
                 CASE st.type = "List" -> Exec(st.body, env, state)
                   [] st.type = "Conditional" ->
                        IF Holds(st.cond, env.deviceid)
                        THEN Exec(st.then_body, env, state)
                        ELSE Exec(st.else_body, env, state)
                   [] OTHER -> ExecSimple(st, env, state)
         IN  Exec(Tail(stmts), env, after)

\* The iets the pass is applied to.
Params ==
    {Param("comm", "MPICommObject"), Param("comm2", "MPICommObject"),
     Param("u", "Function"), DeviceID}

ParamLists == UNION {[1..k -> Params] : k \in 0..MaxParams}

Bodies == {[i \in 1..n |-> Original("s" \o ToString(i))] : n \in 0..MaxStmts}

Iets ==
    {[type |-> t, parameters |-> ps, body |-> b] :
        t \in {"EntryFunction", "Callable"}, ps \in ParamLists, b \in Bodies}

InitInit ==
    /\ SyncIdle /\ MaskIdle /\ OmpIdle /\ RegionIdle /\ ProdderIdle /\ OpIdle
    /\ iet \in Iets
    /\ initret = NoRet
    /\ rtenv = NoEnv
    /\ rtlog = <<>>

\* The pass is applied to the iet.
Initialize ==
    /\ initret.kind = "none"
    /\ initret' = initialize(iet)
    /\ UNCHANGED <<iet, rtenv, rtlog>>

\* The returned function runs in some environment.
Run ==
    /\ initret.kind = "return"
    /\ ~ rtenv.ran
    /\ \E env \in Envs :
          /\ env.ub # -1 => (env.ndevices = 0 /\ env.deviceid = -1)
          /\ rtenv' = env
          /\ rtlog' = Exec(initret.iet.body, env, Start).log
    /\ UNCHANGED <<iet, initret>>

NextInit ==
    /\ Initialize \/ Run
    /\ UNCHANGED <<syncvars, maskvars, ompvars, regionvars, prodvars, opvars>>

SpecInit == InitInit /\ [][NextInit]_vars

(***************************************************************************)
(* SyncOp construction, __eq__ and __hash__.                               *)
(***************************************************************************)
HashMod == 7        \* hash values are kept modulo this

\* The class names and the argument values a SyncOp is built from, in a
\* fixed order: the hash of each is its position.
Atoms ==
    <<"WaitLock", "WithLock", "FetchUpdate", "PrefetchUpdate", "FetchPrefetch",
      "WaitPrefetch", "Delete", None, "h1", "h2", "ds1", "ds2", "time", "x", "u",
      "time_m", "fc", "time+1", "ub", "sb1">>

StrHash(x) == CHOOSE i \in DOMAIN Atoms : Atoms[i] = x

\* hash of a tuple, from the hashes of its elements.
RECURSIVE TupleHash(_)
TupleHash(hs) ==
    IF hs = <<>> THEN 1
    ELSE (31 * TupleHash(SubSeq(hs, 1, Len(hs) - 1)) + hs[Len(hs)]) % HashMod

\* The hashes of self.args; the size of a SyncData is an int.
ArgHashes(o) ==
    [i \in DOMAIN o.args |->
        IF o.cls \in SyncDataClasses /\ i = 2 THEN o.args[i] ELSE StrHash(o.args[i])]

\* SyncOp.__hash__: hash((type(self), self.args))
SyncOp_hash(o) == TupleHash(<<StrHash(o.cls), TupleHash(ArgHashes(o))>>)

\* sympy.Basic.__hash__: hash((type(self).__name__,) + self._hashable_content())
SyncData_hash(o) == TupleHash(<<StrHash(o.cls)>> \o ArgHashes(o))

hash(o) == IF o.cls \in SyncDataClasses THEN SyncData_hash(o) ELSE SyncOp_hash(o)

\* SyncLock.size, or the size attribute of a SyncData.
SyncOp_size(o) == IF o.cls \in SyncDataClasses THEN size(o) ELSE SyncLock_size

NoOp == [cls |-> None, args |-> <<>>]

NoCmp == [done |-> FALSE, eq |-> FALSE, ha |-> 0, hb |-> 0]

\* What the constructors are called with; they take any size.
OpUniverse ==
    {WaitLock(h) : h \in Handles}
    \cup {WithLock(h, ds) : h \in Handles, ds \in {"ds1", "ds2"}}
    \cup {SyncData(c, d, n, "u", "time", "time_m", "fc", pf, None, "ub", "sb1") :
            c \in SyncDataClasses, d \in {"time", "x"}, n \in -1..MaxSize,
            pf \in {None, "time+1"}}

InitOp ==
    /\ SyncIdle /\ MaskIdle /\ OmpIdle /\ RegionIdle /\ ProdderIdle /\ InitIdle
    /\ opa = NoOp
    /\ opb = NoOp
    /\ cmp = NoCmp

\* __new__ of one of the classes.
New ==
    /\ opb = NoOp
    /\ \E o \in OpUniverse :
          IF opa = NoOp THEN opa' = o /\ opb' = opb ELSE opb' = o /\ opa' = opa
    /\ UNCHANGED cmp

\* a == b, hash(a), hash(b)
Compare ==
    /\ opb # NoOp
    /\ ~ cmp.done
    /\ cmp' = [done |-> TRUE, eq |-> SyncOp_eq(opa, opb), ha |-> hash(opa), hb |-> hash(opb)]
    /\ UNCHANGED <<opa, opb>>

NextOp ==
    /\ New \/ Compare
    /\ UNCHANGED <<syncvars, maskvars, ompvars, regionvars, prodvars, initvars>>

SpecOp == InitOp /\ [][NextOp]_vars

(***************************************************************************)
(* A caller that merges three maps at once and in two steps, and one map   *)
(* with itself.                                                            *)
(***************************************************************************)
\* A variant that goes on with c alone when the inner call raises.
NestedCall_goon(a, b, c) ==
    LET inner == normalize_syncs(<<a, b>>)
    IN  IF inner.kind = "raise" THEN normalize_syncs(<<<<>>, c>>)
        ELSE normalize_syncs(<<inner.map, c>>)

\* normalize_syncs(normalize_syncs(a, b), c): the ValueError of the inner
\* call leaves the whole expression.
NestedCall(a, b, c) ==
    LET inner == normalize_syncs(<<a, b>>)
    IN  IF inner.kind = "raise" THEN inner
        ELSE normalize_syncs(<<inner.map, c>>)

InitGroup == InitSync

\* The caller starts the next of its three maps.
GroupNewMap ==
    /\ spc = "build"
    /\ Len(args) < 3
    /\ args' = Append(args, <<>>)
    /\ UNCHANGED <<ret, spc, inputs, nested>>

\* normalize_syncs(a, b, c)
CallFlat ==
    /\ spc = "build"
    /\ Len(args) = 3
    /\ ret' = normalize_syncs(args)
    /\ inputs' = InputsAfter(args)
    /\ spc' = "flat"
    /\ UNCHANGED <<args, nested>>

\* normalize_syncs(normalize_syncs(a, b), c)
CallNested ==
    /\ spc = "flat"
    /\ nested' = NestedCall(args[1], args[2], args[3])
    /\ spc' = "done"
    /\ UNCHANGED <<args, ret, inputs>>

\* normalize_syncs(m, m)
CallSelf ==
    /\ spc = "build"
    /\ Len(args) = 1
    /\ ret' = normalize_syncs(<<args[1], args[1]>>)
    /\ inputs' = InputsAfter(<<args[1], args[1]>>)
    /\ spc' = "self"
    /\ UNCHANGED <<args, nested>>

NextGroup ==
    /\ GroupNewMap \/ AddKey \/ AddOp \/ CallFlat \/ CallNested \/ CallSelf
    /\ UNCHANGED <<maskvars, ompvars, regionvars, prodvars, initvars, opvars>>

SpecGroup == InitGroup /\ [][NextGroup]_vars

(***************************************************************************)
(* Properties of normalize_syncs.                                          *)
(***************************************************************************)
OpX == WaitLock("h1")
OpY == SyncData("FetchUpdate", "time", 1, "u", "time", "time_m", "fc", None, None, "ub", "sb1")
OpZ == SyncData("PrefetchUpdate", "time", 1, "u", "time", "time_m", "fc", None, None, "ub", "sb1")

\* The ops the inputs hold under key k, over all the inputs.
InputOps(k) ==
    UNION {Range(args[i][k]) : i \in {j \in DOMAIN args : k \in DOMAIN args[j]}}

\* The inputs put a WaitLock and a WithLock under one key.
MixedKey(k) ==
    /\ \E o \in InputOps(k) : o.cls = "WaitLock"
    /\ \E o \in InputOps(k) : o.cls = "WithLock"

MixedInputs == \E k \in Keys : MixedKey(k)

\* C1: whatever the number of input maps, a returned map holds no WaitLock
\* together with a WithLock under one key, and inputs that would put both
\* under one key make the call fail.
C1_NeverMixed ==
    spc = "done" =>
        /\ ret.kind = "map" =>
              \A k \in DOMAIN ret.map :
                 ~ (/\ \E i \in DOMAIN ret.map[k] : ret.map[k][i].cls = "WaitLock"
                    /\ \E i \in DOMAIN ret.map[k] : ret.map[k][i].cls = "WithLock")
        /\ MixedInputs => ret.kind = "raise"

\* The concatenation of key k's ops over the first n inputs, in input order.
RECURSIVE ConcatFor(_, _)
ConcatFor(k, n) ==
    IF n = 0 THEN <<>>
    ELSE ConcatFor(k, n - 1) \o (IF k \in DOMAIN args[n] THEN args[n][k] ELSE <<>>)

FirstIdx(c, x) == CHOOSE i \in DOMAIN c : c[i] = x /\ \A j \in 1..(i - 1) : c[j] # x

\* r is c with every element after its first occurrence removed.
IsFirstSeen(r, c) ==
    /\ Range(r) = Range(c)
    /\ \A i, j \in DOMAIN r : i # j => r[i] # r[j]
    /\ \A i, j \in DOMAIN r : i < j => FirstIdx(c, r[i]) < FirstIdx(c, r[j])

\* C2: with two or more inputs the call either fails on a regime conflict or
\* returns a map over the union of the input keys holding, per key, the
\* concatenation of the inputs' ops in input order without the repeats;
\* [{A:[x,y]}, {A:[y,z]}] gives {A:[x,y,z]}.
C2_MergeIsOrderedUnion ==
    (spc = "done" /\ Len(args) >= 2) =>
        /\ ret.kind \in {"map", "raise"}
        /\ ret.kind = "raise" => MixedInputs
        /\ ret.kind = "map" =>
              /\ DOMAIN ret.map = UNION {DOMAIN args[i] : i \in DOMAIN args}
              /\ \A k \in DOMAIN ret.map :
                    IsFirstSeen(ret.map[k], ConcatFor(k, Len(args)))
        /\ args = << [k \in {"A"} |-> <<OpX, OpY>>], [k \in {"A"} |-> <<OpY, OpZ>>] >>
              => ret.map = [k \in {"A"} |-> <<OpX, OpY, OpZ>>]

C2_Witness ==
    /\ spc = "done"
    /\ args = << [k \in {"A"} |-> <<OpX, OpY>>], [k \in {"A"} |-> <<OpY, OpZ>>] >>
    /\ ret.kind = "map"
    /\ ret.map["A"] = <<OpX, OpY, OpZ>>

\* C3: no input gives no map at all, and a single input is returned as it is.
C3_ZeroAndOne ==
    spc = "done" =>
        /\ Len(args) = 0 => ret = ReturnedNone
        /\ Len(args) = 1 => (ret.kind = "map" /\ ret.map = args[1])

C3_Witness ==
    /\ spc = "done"
    /\ Len(args) = 1
    /\ ret.kind = "map"
    /\ "A" \in DOMAIN ret.map
    /\ ret.map["A"] = <<OpY, OpX, OpY>>

\* C4: a detected regime conflict fails with an error that names the
\* offending key, and returns no map.
C4_ErrorNamesKey ==
    (spc = "done" /\ ret.kind = "raise") =>
        /\ ret.map = <<>>
        /\ \E k \in Keys : MixedKey(k) /\ k \in Range(ret.msg)

(***************************************************************************)
(* Properties of the masks.                                                *)
(***************************************************************************)
Swap(s, i, j) == [n \in DOMAIN s |-> IF n = i THEN s[j] ELSE IF n = j THEN s[i] ELSE s[n]]

\* m has one entry per axis of mdims: <<index, n>> on the axes whose root is
\* root, FULL on the others.
OneSlotPerMatchingAxis(m, root, index, n) ==
    /\ DOMAIN m = DOMAIN mdims
    /\ \A i \in DOMAIN mdims :
          /\ Root(mdims[i]) = root => m[i] = <<index, n>>
          /\ Root(mdims[i]) # root => m[i] = FULL

\* C5: the mask of a WithLock has one entry per axis of the target, in axis
\* order: <<the handle's index along the axis, 1>> if and only if the axis's
\* root is a locked dimension, FULL otherwise. With {d} locked and the axes
\* d and e, of different roots, in either order, the only slot-indexed entry
\* is at d's position.
C5_WithLockMask ==
    (op.cls = "WithLock" /\ "imask" \in DOMAIN masks) =>
        LET m == masks["imask"].val
        IN  /\ masks["imask"].exc = None
            /\ DOMAIN m = DOMAIN mdims
            /\ \A i \in DOMAIN mdims :
                  /\ Root(mdims[i]) \in locked =>
                        m[i] = <<op.args[1] \o "[" \o mdims[i] \o "]", 1>>
                  /\ Root(mdims[i]) \notin locked => m[i] = FULL
            /\ \A d, e \in Dimensions :
                  (/\ locked = {d}
                   /\ Root(d) = d
                   /\ Root(e) # d
                   /\ mdims \in {<<d, e>>, <<e, d>>})
                  => /\ Cardinality({i \in DOMAIN m : m[i] # FULL}) = 1
                     /\ \A i \in DOMAIN m : m[i] # FULL <=> mdims[i] = d

C5_Witness ==
    /\ op = WithLock("h1", "ds1")
    /\ locked = {"time"}
    /\ mdims = <<"x", "t">>
    /\ "imask" \in DOMAIN masks
    /\ masks["imask"].val = <<FULL, <<"h1[t]", 1>>>>

\* C6: the mask of a FetchUpdate, PrefetchUpdate or Delete has one entry per
\* axis: on the axes whose root is the root of the op's dim it is
\* <<tstore, size>> (FetchUpdate, PrefetchUpdate) or <<fetch, size>> (Delete),
\* elsewhere FULL; exchanging two axes exchanges their entries.
C6_UpdateDeleteMask ==
    (op.cls \in {"FetchUpdate", "PrefetchUpdate", "Delete"} /\ "imask" \in DOMAIN masks) =>
        LET m == masks["imask"].val
            index == IF op.cls = "Delete" THEN op.args[4] ELSE op.args[10]
        IN  /\ masks["imask"].exc = None
            /\ OneSlotPerMatchingAxis(m, Root(op.args[1]), index, op.args[2])
            /\ \A i, j \in DOMAIN mdims :
                  imask(op, Swap(mdims, i, j), locked).val = Swap(m, i, j)

C6_Witness ==
    /\ op.cls = "Delete"
    /\ op.args[1] = "t"
    /\ mdims = <<"x", "time">>
    /\ "imask" \in DOMAIN masks
    /\ masks["imask"].val = <<FULL, <<"time", 2>>>>

\* C7: a FetchPrefetch answers three mask queries over the same axes; the
\* entry on the axes of the advancing dimension is <<ifetch, size>> for
\* iimask, <<fetch, size>> for pimask and <<pfetch, size>> for imask, every
\* other entry is FULL, and each answer stands whatever else was queried.
C7_FetchPrefetchMasks ==
    op.cls = "FetchPrefetch" =>
        /\ "iimask" \in DOMAIN masks =>
              /\ masks["iimask"].exc = None
              /\ OneSlotPerMatchingAxis(masks["iimask"].val, Root(op.args[1]),
                                        op.args[5], op.args[2])
        /\ "pimask" \in DOMAIN masks =>
              /\ masks["pimask"].exc = None
              /\ OneSlotPerMatchingAxis(masks["pimask"].val, Root(op.args[1]),
                                        op.args[4], op.args[2])
        /\ "imask" \in DOMAIN masks =>
              /\ masks["imask"].exc = None
              /\ OneSlotPerMatchingAxis(masks["imask"].val, Root(op.args[1]),
                                        op.args[7], op.args[2])

C7_Witness ==
    /\ op.cls = "FetchPrefetch"
    /\ op.args[1] = "time"
    /\ mdims = <<"t", "x">>
    /\ DOMAIN masks = {"iimask", "pimask", "imask"}
    /\ masks["iimask"].val = <<<<"time_m", 1>>, FULL>>
    /\ masks["pimask"].val = <<<<"time", 1>>, FULL>>
    /\ masks["imask"].val = <<<<"time+1", 1>>, FULL>>

(***************************************************************************)
(* Properties of the Iteration headers.                                    *)
(***************************************************************************)
Given(k) == k \in DOMAIN kwargs

\* The text of one reduction target: the name, then one bracket per axis,
\* [k] for a constant index k and [0:extent] otherwise.
RECURSIVE Brackets(_, _)
Brackets(i, n) ==
    IF n = 0 THEN ""
    ELSE Brackets(i, n - 1)
         \o (IF i.indices[n].is_Number
             THEN "[" \o ToString(i.indices[n].num) \o "]"
             ELSE "[0:" \o i.sizes[n] \o "]")

TargetText(i) == IF i.is_Indexed THEN i.name \o Brackets(i, Len(i.indices)) ELSE i.name

RECURSIVE CommaJoined(_, _)
CommaJoined(l, n) ==
    IF n = 0 THEN ""
    ELSE IF n = 1 THEN TargetText(l[1])
    ELSE CommaJoined(l, n - 1) \o "," \o TargetText(l[n])

HasTargets == Given("reduction") /\ kwargs["reduction"].seq # <<>>

ReductionText ==
    "reduction(+:" \o CommaJoined(kwargs["reduction"].seq, Len(kwargs["reduction"].seq)) \o ")"

CollapseText ==
    "collapse(" \o (IF Given("ncollapse") THEN ToString(kwargs["ncollapse"].int) ELSE "1") \o ")"

ScheduleText ==
    "schedule(" \o (IF Given("schedule") THEN kwargs["schedule"].str ELSE "dynamic")
    \o "," \o (IF Given("chunk_size") THEN ToString(kwargs["chunk_size"].int) ELSE "1") \o ")"

\* The clauses after collapse that do not depend on the schedule.
TailText ==
    (IF Given("nthreads") THEN " num_threads(" \o kwargs["nthreads"].str \o ")" ELSE "")
    \o (IF HasTargets THEN " " \o ReductionText ELSE "")

\* C8: the host header is, after the directive prefix omp, the construct
\* keyword ("parallel for" when parallel, else "for"), then collapse(N) with
\* N the given count or 1, then schedule(policy,chunk) unless chunk_size is
\* False (policy dynamic and chunk 1 by default), then num_threads if a count
\* was given, then reduction if targets were given; with nothing given and
\* parallel False it is "for collapse(1) schedule(dynamic,1)".
C8_HostHeader ==
    itercls = "OpenMPIteration" =>
        /\ pragma =
              "omp "
              \o (IF Given("parallel") /\ kwargs["parallel"] = PyBool(TRUE)
                  THEN "parallel for" ELSE "for")
              \o " " \o CollapseText
              \o (IF Given("chunk_size") /\ kwargs["chunk_size"] = PyFalse
                  THEN "" ELSE " " \o ScheduleText)
              \o TailText
        /\ (DOMAIN kwargs \subseteq {"parallel"} /\ (Given("parallel") => kwargs["parallel"] = PyFalse))
              => pragma = "omp " \o "for collapse(1) schedule(dynamic,1)"

C8_Witness ==
    /\ itercls = "OpenMPIteration"
    /\ kwargs = [k \in {"parallel"} |-> PyFalse]
    /\ pragma = "omp for collapse(1) schedule(dynamic,1)"

\* C9: when targets are given the clause list ends with exactly one
\* reduction(+:...) clause naming them comma-joined in the given order, a
\* scalar by name and an array element by name and one bracket per axis;
\* f indexed [0, j] over extents (1, 50) gives f[0][0:50].
C9_ReductionClause ==
    (itercls # None /\ HasTargets) =>
        /\ clauses[Len(clauses)] = ReductionText
        /\ Cardinality({n \in DOMAIN clauses : clauses[n] = ReductionText}) = 1
        /\ kwargs["reduction"].seq = <<Indexed("f", <<Number(0), SymbolIdx("j")>>, <<"1", "50">>)>>
              => clauses[Len(clauses)] = "reduction(+:f[0][0:50])"
        /\ kwargs["reduction"].seq = <<Scalar("s")>>
              => clauses[Len(clauses)] = "reduction(+:s)"

C9_Witness ==
    /\ itercls = "OpenMPIteration"
    /\ Given("reduction")
    /\ kwargs["reduction"].seq =
          <<Scalar("s"), Indexed("f", <<Number(0), SymbolIdx("j")>>, <<"1", "50">>)>>
    /\ clauses[Len(clauses)] = "reduction(+:s,f[0][0:50])"

\* C10: the device header always starts with the device-offload construct,
\* whatever parallel is, holds no schedule clause whatever schedule and
\* chunk_size are, and its clauses are those the host builds from the same
\* inputs with chunk_size = False.
C10_DeviceHeader ==
    itercls = "DeviceOmpIteration" =>
        /\ pragma = "omp target teams distribute parallel for" \o " " \o CollapseText \o TailText
        /\ clauses = OpenMPIteration_make_clauses(
                        [k \in DOMAIN kwargs \cup {"chunk_size"} |->
                            IF k = "chunk_size" THEN PyFalse ELSE kwargs[k]])
        /\ Len(clauses) = 1 + (IF Given("nthreads") THEN 1 ELSE 0) + (IF HasTargets THEN 1 ELSE 0)

C10_Witness ==
    /\ itercls = "DeviceOmpIteration"
    /\ Given("parallel") /\ kwargs["parallel"] = PyFalse
    /\ Given("chunk_size") /\ kwargs["chunk_size"] = PyInt(2)
    /\ Given("schedule")
    /\ pragma = "omp target teams distribute parallel for collapse(1) num_threads(nthreads)"

(***************************************************************************)
(* Properties of OpenMPRegion.                                             *)
(***************************************************************************)
\* The body argument is one bare parallel tree.
IsBareTree == Len(rbody) = 1 /\ rbody[1].type = "ParallelTree"

\* The body argument is one wrapper list around exactly one parallel tree,
\* with nothing after it.
IsGoodWrapper ==
    /\ Len(rbody) = 1
    /\ rbody[1].type = "List"
    /\ Len(rbody[1].body) = 1
    /\ rbody[1].body[1].type = "ParallelTree"
    /\ rbody[1].footer = <<>>

\* C11: a Region is built only from a single bare parallel tree or a single
\* wrapper list holding exactly one parallel tree and an empty footer; every
\* other shape raises and builds no Region.
C11_RegionShape ==
    region.kind # "none" =>
        /\ region.kind = "Region" <=> (IsBareTree \/ IsGoodWrapper)
        /\ region.kind # "Region" =>
              (region.kind = "raise" /\ region.exc = "AssertionError" /\ region.body = <<>>)

C11_Witness ==
    /\ region.kind = "raise"
    /\ Len(rbody) = 1
    /\ rbody[1].type = "List"
    /\ Len(rbody[1].body) = 1
    /\ rbody[1].body[1].type = "ParallelTree"
    /\ rbody[1].footer = <<"f1">>

\* C12: the Region header is the team-spawn keyword, the thread count read
\* from the loop nest, and a private(...) clause of the given names,
\* comma-joined in order, if and only if the private list is non-empty.
C12_RegionHeader ==
    region.kind = "Region" =>
        LET nthreads == IF IsBareTree THEN rbody[1].nthreads ELSE rbody[1].body[1].nthreads
            names == rprivate.seq
        IN  region.pragma =
               "omp parallel num_threads(" \o nthreads \o ")" \o " "
               \o (CASE rprivate.tag = "None" -> ""
                     [] Len(names) = 0 -> ""
                     [] Len(names) = 1 -> "private(" \o names[1] \o ")"
                     [] Len(names) = 2 -> "private(" \o names[1] \o "," \o names[2] \o ")"
                     [] Len(names) = 3 ->
                          "private(" \o names[1] \o "," \o names[2] \o "," \o names[3] \o ")")

C12_Witness ==
    /\ region.kind = "Region"
    /\ rprivate = PyList(<<"v1", "v2">>)
    /\ rbody[1].type = "List"
    /\ region.pragma = "omp parallel num_threads(nthreads_nested) private(v1,v2)"

\* The statements of a sequence of nodes, in order: a list's header, its
\* body, its footer; any other node by name.
RECURSIVE Statements(_)
Statements(nodes) ==
    IF nodes = <<>> THEN <<>>
    ELSE LET n == nodes[1]
         IN  (IF n.type = "List"
              THEN n.header \o Statements(n.body) \o n.footer
              ELSE <<n.name>>)
             \o Statements(SubSeq(nodes, 2, Len(nodes)))

\* C20: built from a wrapper list, the Region's body is one parallel tree,
\* the wrapper's, whose prefix holds the wrapper's header statements and then
\* the tree's own prefix statements, each once and in order; built from a
\* bare parallel tree, the body is that tree unchanged.
C20_RegionPrefix ==
    region.kind = "Region" =>
        /\ Len(region.body) = 1
        /\ IsBareTree => region.body[1] = rbody[1]
        /\ IsGoodWrapper =>
              LET tree == rbody[1].body[1]
              IN  /\ region.body[1].type = "ParallelTree"
                  /\ region.body[1].body = tree.body
                  /\ region.body[1].nthreads = tree.nthreads
                  /\ Statements(region.body[1].prefix)
                        = rbody[1].header \o Statements(tree.prefix)

C20_Witness ==
    /\ region.kind = "Region"
    /\ rbody[1].type = "List"
    /\ Statements(region.body[1].prefix) = <<"c1", "c2", "p1", "p2">>

(***************************************************************************)
(* Properties of ThreadedProdder.                                          *)
(***************************************************************************)
InLoop(t) == tpc[t] \in {"while", "test"}

\* C13: whatever the interleaving, only thread 0 ever calls the prodder, at
\* most one thread is inside the loop, and every other thread that has not
\* yet passed the statement can take its step whatever thread 0 is doing,
\* and is never inside the loop.
C13_OnlyThreadZeroProds ==
    /\ \A t \in Threads : t # 0 => calls[t].n = 0
    /\ Cardinality({t \in Threads : InLoop(t)}) <= 1
    /\ \A t \in Threads : t # 0 =>
          /\ ~ InLoop(t)
          /\ tpc[t] = "if" => ENABLED (EvalIf(t) /\ tpc'[t] = "done")

C13_Witness ==
    /\ InLoop(0)
    /\ calls[0].n >= 2
    /\ \A t \in Threads : t # 0 => tpc[t] = "done"

(***************************************************************************)
(* Properties of DeviceOmpizer.initialize.                                 *)
(***************************************************************************)
IsEntry == iet.type = "EntryFunction"

HasComm == \E i \in 1..Len(iet.parameters) : iet.parameters[i].cls = "MPICommObject"

\* The name of the first communicator among the parameters.
FirstComm ==
    LET at == CHOOSE i \in 1..Len(iet.parameters) :
                  /\ iet.parameters[i].cls = "MPICommObject"
                  /\ \A j \in 1..(i - 1) : iet.parameters[j].cls # "MPICommObject"
    IN  iet.parameters[at].name

HasDeviceID == \E i \in 1..Len(iet.parameters) : iet.parameters[i].cls = "DeviceID"

\* The run-time calls of the setup block: those that are no statement of
\* the original body.
IsSetupCall(e) == \A i \in 1..Len(iet.body) : iet.body[i].name # e.name

SetupCalls == SelectSeq(rtlog, IsSetupCall)

SetDevice(n) == Logged("omp_set_default_device", "", n)

\* C14: at run time of the rewritten entry point: a device id other than -1
\* makes the one call that sets the device to that id, with or without a
\* communicator, and neither the rank nor the number of devices is queried;
\* device id -1 with a communicator queries the rank on the communicator and
\* the number of devices and (when that number is not zero) sets the device to
\* rank mod ngpus; device id -1 without a communicator makes no call at all.
C14_DeviceSelection ==
    (rtenv.ran /\ IsEntry) =>
        /\ rtenv.deviceid # -1 => SetupCalls = <<SetDevice(rtenv.deviceid)>>
        /\ (rtenv.deviceid = -1 /\ ~ HasComm) => SetupCalls = <<>>
        /\ (rtenv.deviceid = -1 /\ HasComm) =>
              /\ Len(SetupCalls) = 3
              /\ SetupCalls[1] = Logged("MPI_Comm_rank", FirstComm, 0)
              /\ SetupCalls[2] = Logged("omp_get_num_devices", "", 0)
              /\ rtenv.ndevices # 0 =>
                    SetupCalls[3] = SetDevice(rtenv.mpirank % rtenv.ndevices)

C14_Witness ==
    /\ rtenv.ran /\ IsEntry /\ HasComm
    /\ rtenv.deviceid = -1 /\ rtenv.mpirank = 2 /\ rtenv.ndevices = 2
    /\ Len(rtlog) >= 3
    /\ rtlog[3] = SetDevice(0)

\* C15 as stated: applied to an entry point without a device-id parameter,
\* the pass fails and returns no rewritten entry point.
C15_FailsWithoutDeviceID ==
    (initret.kind # "none" /\ IsEntry /\ ~ HasDeviceID) => initret.kind = "raise"

\* C15: applied to an entry point without a device-id parameter, the pass
\* does not fail: it returns the rewritten entry point, the setup block first,
\* and reports the device id it has created as the additional parameter.
C15_CreatesDeviceID ==
    (initret.kind # "none" /\ IsEntry /\ ~ HasDeviceID) =>
        /\ initret.kind = "return"
        /\ initret.iet.type = "EntryFunction"
        /\ Len(initret.iet.body) = Len(iet.body) + 1
        /\ initret.iet.body[1].header = <<"Begin of OpenMP+MPI setup">>
        /\ initret.meta = {[key |-> "args", value |-> DeviceID]}

C15_Witness ==
    /\ initret.kind = "return"
    /\ IsEntry /\ ~ HasDeviceID /\ HasComm
    /\ initret.meta # {}

\* C16: a function that is not the entry point is returned as it is, with
\* no parameter reported; for the entry point the new body is the setup block
\* followed by the original statements in their order, nothing else of the
\* function changes, and the device id is reported as one more parameter.
C16_OnlyEntryPoint ==
    initret.kind # "none" =>
        /\ initret.kind = "return"
        /\ ~ IsEntry => (initret.iet = iet /\ initret.meta = {})
        /\ IsEntry =>
              /\ initret.iet.type = iet.type
              /\ initret.iet.parameters = iet.parameters
              /\ Len(initret.iet.body) = Len(iet.body) + 1
              /\ initret.iet.body[1].type = "List"
              /\ initret.iet.body[1].header = <<"Begin of OpenMP+MPI setup">>
              /\ Tail(initret.iet.body) = iet.body
              /\ initret.meta = {[key |-> "args", value |-> DeviceID]}

C16_Witness ==
    /\ initret.kind = "return" /\ IsEntry
    /\ Len(iet.body) = 2
    /\ Tail(initret.iet.body) = <<Original("s1"), Original("s2")>>

(***************************************************************************)
(* More properties of normalize_syncs.                                     *)
(***************************************************************************)
\* C17: whatever the number of inputs, no key of a returned map holds two
\* equal ops (same class, same arguments in the same order).
C17_NoDuplicates ==
    (spc = "done" /\ ret.kind = "map") =>
        \A k \in DOMAIN ret.map :
            \A i, j \in DOMAIN ret.map[k] :
                i # j => ~ SyncOp_eq(ret.map[k][i], ret.map[k][j])

(***************************************************************************)
(* Properties of SyncOp construction and comparison.                       *)
(***************************************************************************)
SameClassAndArguments ==
    /\ opa.cls = opb.cls
    /\ Len(opa.args) = Len(opb.args)
    /\ \A i \in DOMAIN opa.args : opa.args[i] = opb.args[i]

\* C18: two SyncOps are equal exactly when they are of the same class and
\* have the same arguments in the same order: a WaitLock never equals a
\* WithLock, two WithLocks over different dspaces differ, two SyncData ops of
\* different classes differ whatever their arguments; equal ops have equal
\* hashes.
C18_EqualityAndHash ==
    cmp.done =>
        /\ cmp.eq <=> SameClassAndArguments
        /\ opa.cls # opb.cls => ~ cmp.eq
        /\ (opa.cls = "WithLock" /\ opb.cls = "WithLock" /\ opa.args[2] # opb.args[2])
              => ~ cmp.eq
        /\ cmp.eq => cmp.ha = cmp.hb

C18_Witness ==
    /\ cmp.done
    /\ opa.cls = "FetchUpdate"
    /\ opb.cls = "PrefetchUpdate"
    /\ opa.args = opb.args
    /\ ~ cmp.eq

\* C19: every constructed SyncOp has a size of at least 1.
C19_SizeAtLeastOne ==
    /\ opa.cls # None => SyncOp_size(opa) >= 1
    /\ opb.cls # None => SyncOp_size(opb) >= 1

\* The content of the lists of the merged map, read off the heap.
MergedLists ==
    LET h == CollectInPlace(args, Len(args))
    IN  [k \in DOMAIN h.syncs |->
            IF h.syncs[k].own = 0 THEN h.syncs[k].val ELSE h.ins[h.syncs[k].own][k]]

\* C21: after a call, whether it returned or raised, every input map has
\* the keys it had and every list in it the ops it had, in the same order;
\* the lists the merge extends are its own, and hold the concatenation.
C21_InputsUntouched ==
    spc = "done" =>
        /\ Len(inputs) = Len(args)
        /\ \A i \in DOMAIN args :
              /\ DOMAIN inputs[i] = DOMAIN args[i]
              /\ \A k \in DOMAIN args[i] : inputs[i][k] = args[i][k]
        /\ Len(args) >= 2 => MergedLists = Collect(args)

C21_Witness ==
    /\ spc = "done"
    /\ Len(args) = 2
    /\ "A" \in DOMAIN args[1] /\ "A" \in DOMAIN args[2]
    /\ args[1]["A"] = <<OpX>>
    /\ args[2]["A"] = <<OpY, OpX>>
    /\ ret.kind = "map"
    /\ ret.map["A"] = <<OpX, OpY>>
    /\ inputs[1]["A"] = <<OpX>>

\* C22: merging a, b and c at once and merging c into the merge of a and b
\* either both raise the ValueError or both return the same keys with the
\* same ops in the same order; a map merged with itself gives, per key, its
\* ops in order without the repeats (or raises, when it mixes WaitLock and
\* WithLock under a key).
C22_GroupingInsensitive ==
    /\ spc = "done" =>
          /\ ret.kind = "raise" <=> nested.kind = "raise"
          /\ ret.kind = "raise" => (ret.exc = "ValueError" /\ nested.exc = "ValueError")
          /\ ret.kind = "map" =>
                /\ nested.kind = "map"
                /\ DOMAIN nested.map = DOMAIN ret.map
                /\ \A k \in DOMAIN ret.map : nested.map[k] = ret.map[k]
    /\ spc = "self" =>
          /\ ret.kind = "raise" <=> MixedInputs
          /\ ret.kind = "map" =>
                /\ DOMAIN ret.map = DOMAIN args[1]
                /\ \A k \in DOMAIN args[1] : IsFirstSeen(ret.map[k], args[1][k])

C22_Witness ==
    /\ spc = "done"
    /\ args = << [k \in {"A"} |-> <<OpY>>], [k \in {"A"} |-> <<OpX, OpY>>],
                 [k \in {"A"} |-> <<OpX>>] >>
    /\ nested.kind = "map"
    /\ nested.map["A"] = <<OpY, OpX>>
    /\ ret.map["A"] = <<OpY, OpX>>

(***************************************************************************)
(* Progress of the threads running a ThreadedProdder.                      *)
(***************************************************************************)
\* A call of the prodder by thread 0 has returned true.
ProdTrue == calls[0].n > 0 /\ calls[0].ret

AllDone == \A t \in Threads : tpc[t] = "done"

OthersDone == \A t \in Threads : t # 0 => tpc[t] = "done"

\* C23: thread 0 leaves the loop only on a call of the prodder that returned
\* true, and once a call has returned true thread 0 leaves and every thread
\* completes the statement; if no call ever returns true thread 0 enters the
\* loop and stays in it for ever; the other threads complete the statement
\* in either case.
C23_LeavesExactlyOnTrue ==
    /\ [][(InLoop(0) /\ tpc'[0] = "done") => ProdTrue]_vars
    /\ ProdTrue ~> AllDone
    /\ ([] ~ ProdTrue) => (<>[] InLoop(0))
    /\ <>[] OthersDone

C23_Witness ==
    /\ AllDone
    /\ calls[0].n >= 2
    /\ calls[0].ret

====
